---- MODULE Spec2Model ----
(***************************************************************************)
(* Model of the AI-enhanced PowerPoint generator (src/src.py): a Streamlit *)
(* script that is re-run top to bottom for every request.  One script run  *)
(* is modelled as a walk of the program counter pc through the stages      *)
(* Access Guard -> form -> Extractor -> Enhancer -> JSON parse ->          *)
(* temporary file -> Builder -> download, with the single try/except of    *)
(* the submission handler as the stage "except".                           *)
(*                                                                         *)
(* Texts read by the Extractor are sequences of one-character strings, so  *)
(* that str.strip() is modelled by what it does.  Texts written by the     *)
(* Builder are TLA+ strings.                                               *)
(***************************************************************************)
EXTENDS Integers, Sequences, FiniteSets, TLC

VARIABLES
    required_key,   \* st.secrets["security"]["access_key"]
    pc,             \* position of the current script run ("idle": no run)
    user_key,       \* st.query_params.get("key", None)
    submitted,      \* st.form_submit_button(...)
    ppt_file,       \* st.file_uploader(...)
    slide_count,    \* st.slider(..., 3, 20, 6)
    extracted,      \* result of extract_ppt_text
    json_str,       \* result of generate_improved_json
    data,           \* result of json.loads
    pptx_path,      \* tmp.name / result of json_to_ppt
    disk,           \* temporary files on disk: name -> content
    log,            \* what the current run did and showed, in order
    nRequests,      \* script runs started so far
    nParsed         \* runs so far in which json.loads returned

vars == <<required_key, pc, user_key, submitted, ppt_file, slide_count,
          extracted, json_str, data, pptx_path, disk, log, nRequests, nParsed>>

(***************************************************************************)
(* Bounds of the model.                                                    *)
(***************************************************************************)
MaxRequests == 3      \* script runs in one behaviour
MaxParas == 2         \* paragraphs of one uploaded shape
MaxShapes == 2        \* shapes of one uploaded slide
MaxDeck == 3          \* slides of an uploaded deck (narrow slides)
MaxReply == 2         \* tokens of a language-model reply
MaxWide == 1          \* slide records of a reply, every field combination
MaxLong == 6          \* slide records of a reply, two kinds of record
MaxBuilds == 2        \* submissions of one reply in the build runs

(***************************************************************************)
(* Program constants.                                                      *)
(***************************************************************************)
SliderMin == 3
SliderMax == 20
SliderDefault == 6

None == "None"
NoData == [type |-> "unset"]

(***************************************************************************)
(* Python helpers.                                                         *)
(***************************************************************************)

\* dict.get(k, default)
Get(d, k, default) == IF k \in DOMAIN d THEN d[k] ELSE default

\* the characters str.strip() removes
IsSpace(c) == c \in {" ", "\n"}

RECURSIVE lstrip(_)
lstrip(s) == IF s # <<>> /\ IsSpace(Head(s)) THEN lstrip(Tail(s)) ELSE s

RECURSIVE rstrip(_)
rstrip(s) ==
    IF s # <<>> /\ IsSpace(s[Len(s)]) THEN rstrip(SubSeq(s, 1, Len(s) - 1)) ELSE s

\* str.strip()
strip_identity(s) == s
strip(s) == rstrip(lstrip(s))

\* all sequences over S of length at most n
RECURSIVE SeqsUpTo(_, _)
SeqsUpTo(S, n) ==
    IF n = 0 THEN {<<>>}
    ELSE LET shorter == SeqsUpTo(S, n - 1)
         IN  shorter \cup {Append(q, x) : q \in {r \in shorter : Len(r) = n - 1}, x \in S}

(***************************************************************************)
(* Extractor (extract_ppt_text).  A parsed presentation is a sequence of   *)
(* slides; a slide is its shape collection and the position of the title   *)
(* placeholder in it (0: slide.shapes.title is None); a shape has a text   *)
(* frame with paragraphs, or none.                                         *)
(***************************************************************************)

\* _BaseShape.text / TextFrame.text: the paragraphs' texts joined by "\n"
RECURSIVE shape_text(_)
shape_text(paras) ==
    IF paras = <<>> THEN <<>>
    ELSE IF Len(paras) = 1 THEN paras[1]
    ELSE paras[1] \o <<"\n">> \o shape_text(Tail(paras))

\* lines 38-41: the inner loop over shape.text_frame.paragraphs
RECURSIVE append_paragraphs(_, _)
append_paragraphs(bullet_points, paras) ==
    IF paras = <<>> THEN bullet_points
    ELSE LET text == strip(paras[1])
         IN  append_paragraphs(
                 IF text # <<>> THEN Append(bullet_points, text) ELSE bullet_points,
                 Tail(paras))

\* line 37: shape.has_text_frame and shape != slide.shapes.title
is_bullet_shape_no_title_test(slide, j) == slide.shapes[j].has_text_frame
is_bullet_shape(slide, j) == slide.shapes[j].has_text_frame /\ j # slide.title

\* lines 36-41: the loop over slide.shapes, from shape j on
RECURSIVE collect_bullets(_, _, _)
collect_bullets(slide, j, bullet_points) ==
    IF j > Len(slide.shapes) THEN bullet_points
    ELSE collect_bullets(slide, j + 1,
             IF is_bullet_shape(slide, j)
             THEN append_paragraphs(bullet_points, slide.shapes[j].paragraphs)
             ELSE bullet_points)

\* lines 33-41: the body of the loop over prs.slides
slide_data(slide) ==
    [heading |-> IF slide.title # 0
                 THEN strip(shape_text(slide.shapes[slide.title].paragraphs))
                 ELSE <<>>,
     bullet_points |-> collect_bullets(slide, 1, <<>>)]

\* lines 32-42: the loop over prs.slides, appending to content
RECURSIVE extract_loop(_, _, _)
extract_loop(slides, i, content) ==
    IF i > Len(slides) THEN content
    ELSE extract_loop(slides, i + 1, Append(content, slide_data(slides[i])))

\* a plausible slip: slides without a title are skipped
RECURSIVE extract_loop_titled_only(_, _, _)
extract_loop_titled_only(slides, i, content) ==
    IF i > Len(slides) THEN content
    ELSE extract_loop_titled_only(slides, i + 1,
             IF slides[i].title # 0 THEN Append(content, slide_data(slides[i]))
             ELSE content)

extract_ppt_text_titled_only(prs) == extract_loop_titled_only(prs, 1, <<>>)
extract_ppt_text(prs) == extract_loop(prs, 1, <<>>)

(***************************************************************************)
(* Enhancer (generate_improved_json) and json.loads.  The reply of the     *)
(* language-model service is a sequence of tokens: " " and "\n" are        *)
(* whitespace, "fence" is a markdown fence or commentary, "cut" is a JSON  *)
(* document cut off by max_tokens, and a document name stands for the      *)
(* complete JSON text of that document.                                    *)
(***************************************************************************)

\* a JSON object / a JSON array, as json.loads returns them
JDict(d) == [type |-> "dict", d |-> d]
JList == [type |-> "list"]

FullRecord == [heading |-> "H", bullet_points |-> <<"a", "b">>, chart_type |-> "bar"]
BareRecord == <<>>

Documents == [deck |-> JDict([title |-> "T", slides |-> <<FullRecord, BareRecord>>]),
              bare |-> JDict(<<>>),
              list |-> JList]

\* json.loads: surrounding whitespace is skipped, then exactly one complete
\* JSON document must make up the text
json_loads_raises(s) == ~(Len(strip(s)) = 1 /\ strip(s)[1] \in DOMAIN Documents)
json_loads(s) == Documents[strip(s)[1]]

(***************************************************************************)
(* Builder (json_to_ppt).  The generated presentation is a sequence of     *)
(* slides; of a slide the model keeps its layout, the text of its title    *)
(* shape, the paragraphs of its body and its chart placeholder boxes.      *)
(***************************************************************************)

\* lines 88-90: the title slide
title_slide(content) ==
    [layout |-> 0,
     title_text |-> Get(content, "title", "Untitled Presentation"),
     body |-> <<"Enhanced by GPT-4">>,
     chart_box |-> <<>>]

\* lines 125-133: the optional chart placeholder
chart_box_when_key_present(s) ==
    IF "chart_type" \in DOMAIN s
    THEN <<"[" \o s["chart_type"] \o " chart placeholder]">>
    ELSE <<>>
chart_box(s) ==
    IF Get(s, "chart_type", "") # ""
    THEN <<"[" \o s["chart_type"] \o " chart placeholder]">>
    ELSE <<>>

\* lines 93-133: the body of the loop over content.get("slides", []); a new
\* text box holds one empty paragraph, add_paragraph appends after it
content_slide(s) ==
    [layout |-> 6,
     title_text |-> Get(s, "heading", ""),
     body |-> <<"">> \o Get(s, "bullet_points", <<>>),
     chart_box |-> chart_box(s)]

\* lines 92-133: the loop, appending to prs.slides
RECURSIVE add_slides(_, _, _)
add_slides(records, i, slides) ==
    IF i > Len(records) THEN slides
    ELSE add_slides(records, i + 1, Append(slides, content_slide(records[i])))

\* line 89 raises AttributeError when content is not a dict
json_to_ppt_raises(content) == content.type # "dict"

\* a plausible slip: the deck is cut to the requested slide count
json_to_ppt_truncated(content) ==
    LET records == Get(content.d, "slides", <<>>)
        kept == IF Len(records) > slide_count - 1
                THEN SubSeq(records, 1, slide_count - 1) ELSE records
    IN  add_slides(kept, 1, <<title_slide(content.d)>>)

\* lines 84-133: the presentation handed to prs.save
json_to_ppt(content) ==
    add_slides(Get(content.d, "slides", <<>>), 1, <<title_slide(content.d)>>)

(***************************************************************************)
(* Inputs.                                                                 *)
(***************************************************************************)

Keys == {"k1", "k2"}

\* paragraph texts: whitespace only, plain, padded on both sides
Texts == {<<" ">>, <<"b">>, <<" ", "a", " ">>}

Picture == [has_text_frame |-> FALSE, paragraphs |-> <<>>]
TextShapes == {[has_text_frame |-> TRUE, paragraphs |-> ps] : ps \in SeqsUpTo(Texts, MaxParas)}
Shapes == TextShapes \cup {Picture}

\* the title placeholder, when there is one, is a shape with a text frame
Slides ==
    {sl \in [shapes : SeqsUpTo(Shapes, MaxShapes), title : 0..MaxShapes] :
        sl.title # 0 =>
            sl.title <= Len(sl.shapes) /\ sl.shapes[sl.title].has_text_frame}

TitleShape == [has_text_frame |-> TRUE, paragraphs |-> <<<<" ", "a", " ">>>>]
BodyShape == [has_text_frame |-> TRUE, paragraphs |-> <<<<"b">>, <<" ">>>>]
TitledSlide == [shapes |-> <<TitleShape, BodyShape>>, title |-> 1]
UntitledSlide == [shapes |-> <<BodyShape>>, title |-> 0]
PictureSlide == [shapes |-> <<Picture>>, title |-> 0]

\* uploads of the extraction runs: one slide of any shape, or up to MaxDeck
\* slides of three kinds
WideDecks == {<<sl>> : sl \in Slides}
LongDecks == SeqsUpTo({TitledSlide, UntitledSlide, PictureSlide}, MaxDeck)

NoUpload == [kind |-> "none", prs |-> <<>>]
BadUpload == [kind |-> "corrupt", prs |-> <<>>]
Upload(prs) == [kind |-> "pptx", prs |-> prs]

\* uploads of the full pipeline
Uploads == {NoUpload, BadUpload, Upload(<<>>), Upload(<<TitledSlide, PictureSlide>>)}

SlideCounts == {SliderMin, SliderDefault, SliderMax}

Tokens == {" ", "fence", "cut"} \cup DOMAIN Documents
Replies == SeqsUpTo(Tokens, MaxReply)

\* replies of the build runs, already parsed
Headings == {"H"}
BulletLists == {<<>>, <<"a", "b">>}
ChartTypes == {"", "bar"}
OptionalField(k, S) == {<<>>} \cup {[x \in {k} |-> v] : v \in S}
Records ==
    {h @@ b @@ c : h \in OptionalField("heading", Headings),
                   b \in OptionalField("bullet_points", BulletLists),
                   c \in OptionalField("chart_type", ChartTypes)}
RecordLists == SeqsUpTo(Records, MaxWide) \cup SeqsUpTo({FullRecord, BareRecord}, MaxLong)
Decks ==
    {t @@ sl : t \in OptionalField("title", {"T"}),
               sl \in OptionalField("slides", RecordLists)}
Contents == {JDict(d) : d \in Decks} \cup {JList}

(***************************************************************************)
(* The script run.                                                         *)
(***************************************************************************)

Shown(event) == log' = Append(log, event)

Count(event) == Cardinality({i \in 1..Len(log) : log[i] = event})

\* line 17: the request passes when the keys are equal
key_ok_when_given(given, required) == given = None \/ given = required
key_ok(given, required) == given = required

\* line 149: "if not ppt_file"
has_upload_unchecked(file) == TRUE
has_upload(file) == file.kind # "none"

\* line 170: "except Exception" takes every exception the phase raises
except_target_json_only(exc) == IF exc = "JSONDecodeError" THEN "except" ELSE "crash"
except_target(exc) == "except"

\* lines 170-171: after st.error the script run is over
after_except_build_anyway == IF Count("TmpFile") = 0 THEN "tmpfile" ELSE "idle"
after_except_retry == IF Count("Enhancer") < 2 THEN "enhance" ELSE "idle"
after_except == "idle"

\* line 165: NamedTemporaryFile creates a file under a name not in use
TmpNames == 1..MaxRequests
tmp_names_fixed(files) == {1}
tmp_names(files) == TmpNames \ DOMAIN files

EmptyFile == [saved |-> FALSE, prs |-> <<>>]
SavedFile(prs) == [saved |-> TRUE, prs |-> prs]

\* writing file n leaves the other files alone
Write(files, n, file) ==
    [m \in DOMAIN files \cup {n} |-> IF m = n THEN file ELSE files[m]]

\* a request arrives: the script starts from the top with fresh variables
Request ==
    /\ pc = "idle"
    /\ nRequests < MaxRequests
    /\ nRequests' = nRequests + 1
    /\ user_key' \in Keys \cup {None}
    /\ submitted' \in BOOLEAN
    /\ ppt_file' \in Uploads
    /\ slide_count' \in SlideCounts
    /\ extracted' = <<>>
    /\ json_str' = <<>>
    /\ data' = NoData
    /\ pptx_path' = 0
    /\ log' = <<>>
    /\ pc' = "guard"
    /\ UNCHANGED <<required_key, disk, nParsed>>

\* lines 13-19: the security check
Guard ==
    /\ pc = "guard"
    /\ IF key_ok(user_key, required_key)
       THEN pc' = "form" /\ UNCHANGED log
       ELSE Shown("AccessDenied") /\ pc' = "idle"
    /\ UNCHANGED <<required_key, user_key, submitted, ppt_file, slide_count,
                   extracted, json_str, data, pptx_path, disk, nRequests, nParsed>>

\* lines 139-148: the form is rendered; "if submitted"
Form ==
    /\ pc = "form"
    /\ Shown("Form")
    /\ pc' = IF submitted THEN "handler" ELSE "idle"
    /\ UNCHANGED <<required_key, user_key, submitted, ppt_file, slide_count,
                   extracted, json_str, data, pptx_path, disk, nRequests, nParsed>>

\* lines 149-155: the upload check and the Extractor, outside the try
Handler ==
    /\ pc = "handler"
    /\ IF ~has_upload(ppt_file)
       THEN /\ Shown("MissingUpload")
            /\ pc' = "idle"
            /\ UNCHANGED extracted
       ELSE IF ppt_file.kind = "pptx"
       THEN /\ extracted' = extract_ppt_text(ppt_file.prs)
            /\ log' = log \o <<"Extractor", "Extracted">>
            /\ pc' = "enhance"
       ELSE /\ Shown("Extractor")
            /\ pc' = "crash"
            /\ UNCHANGED extracted
    /\ UNCHANGED <<required_key, user_key, submitted, ppt_file, slide_count,
                   json_str, data, pptx_path, disk, nRequests, nParsed>>

\* line 159: generate_improved_json sends one request; the service fails or
\* replies, and the reply is stripped (line 80)
Enhance ==
    /\ pc = "enhance"
    /\ Shown("Enhancer")
    /\ \E service_ok \in BOOLEAN :
          IF service_ok
          THEN \E reply \in Replies : json_str' = strip(reply) /\ pc' = "parse"
          ELSE pc' = except_target("ServiceFailure") /\ UNCHANGED json_str
    /\ UNCHANGED <<required_key, user_key, submitted, ppt_file, slide_count,
                   extracted, data, pptx_path, disk, nRequests, nParsed>>

\* lines 160-162: json.loads
Parse ==
    /\ pc = "parse"
    /\ IF json_loads_raises(json_str)
       THEN /\ pc' = except_target("JSONDecodeError")
            /\ UNCHANGED <<data, log, nParsed>>
       ELSE /\ data' = json_loads(json_str)
            /\ Shown("Parsed")
            /\ nParsed' = nParsed + 1
            /\ pc' = "tmpfile"
    /\ UNCHANGED <<required_key, user_key, submitted, ppt_file, slide_count,
                   extracted, json_str, pptx_path, disk, nRequests>>

\* line 165: NamedTemporaryFile(delete=False, suffix=".pptx")
TmpFile ==
    /\ pc = "tmpfile"
    /\ \E name \in tmp_names(disk) :
          /\ disk' = Write(disk, name, EmptyFile)
          /\ pptx_path' = name
    /\ Shown("TmpFile")
    /\ pc' = "build"
    /\ UNCHANGED <<required_key, user_key, submitted, ppt_file, slide_count,
                   extracted, json_str, data, nRequests, nParsed>>

\* line 166: json_to_ppt(data, tmp.name); constructing the presentation
\* raises on a reply that is no object, prs.save may fail
Build ==
    /\ pc = "build"
    /\ IF json_to_ppt_raises(data)
       THEN /\ Shown("Builder")
            /\ pc' = except_target("AttributeError")
            /\ UNCHANGED disk
       ELSE \E save_ok \in BOOLEAN :
               IF save_ok
               THEN /\ disk' = Write(disk, pptx_path, SavedFile(json_to_ppt(data)))
                    /\ log' = log \o <<"Builder", "Saved">>
                    /\ pc' = "download"
               ELSE /\ log' = log \o <<"Builder", "SaveFailed">>
                    /\ pc' = except_target("OSError")
                    /\ UNCHANGED disk
    /\ UNCHANGED <<required_key, user_key, submitted, ppt_file, slide_count,
                   extracted, json_str, data, pptx_path, nRequests, nParsed>>

\* lines 167-168: the saved file is opened and offered for download
Download ==
    /\ pc = "download"
    /\ Shown("Download")
    /\ pc' = "idle"
    /\ UNCHANGED <<required_key, user_key, submitted, ppt_file, slide_count,
                   extracted, json_str, data, pptx_path, disk, nRequests, nParsed>>

\* lines 170-171: st.error(f"Error: {e}")
Except ==
    /\ pc = "except"
    /\ Shown("Error")
    /\ pc' = after_except
    /\ UNCHANGED <<required_key, user_key, submitted, ppt_file, slide_count,
                   extracted, json_str, data, pptx_path, disk, nRequests, nParsed>>

\* an exception no handler takes ends the script run
Crash ==
    /\ pc = "crash"
    /\ Shown("Uncaught")
    /\ pc' = "idle"
    /\ UNCHANGED <<required_key, user_key, submitted, ppt_file, slide_count,
                   extracted, json_str, data, pptx_path, disk, nRequests, nParsed>>

Init ==
    /\ required_key \in Keys
    /\ pc = "idle"
    /\ user_key = None
    /\ submitted = FALSE
    /\ ppt_file = NoUpload
    /\ slide_count = SliderDefault
    /\ extracted = <<>>
    /\ json_str = <<>>
    /\ data = NoData
    /\ pptx_path = 0
    /\ disk = <<>>
    /\ log = <<>>
    /\ nRequests = 0
    /\ nParsed = 0

Next ==
    \/ Request
    \/ Guard
    \/ Form
    \/ Handler
    \/ Enhance
    \/ Parse
    \/ TmpFile
    \/ Build
    \/ Download
    \/ Except
    \/ Crash

Spec == Init /\ [][Next]_vars

(***************************************************************************)
(* Extraction runs: one submission with a valid key, stopped at the        *)
(* submission handler, for every upload of WideDecks and LongDecks.        *)
(***************************************************************************)
InitExtract ==
    /\ required_key \in Keys
    /\ user_key = required_key
    /\ submitted = TRUE
    /\ ppt_file \in {Upload(prs) : prs \in WideDecks \cup LongDecks}
    /\ slide_count = SliderDefault
    /\ extracted = <<>>
    /\ json_str = <<>>
    /\ data = NoData
    /\ pptx_path = 0
    /\ disk = <<>>
    /\ log = <<"Form">>
    /\ pc = "handler"
    /\ nRequests = 1
    /\ nParsed = 0

NextExtract == Handler

SpecExtract == InitExtract /\ [][NextExtract]_vars

(***************************************************************************)
(* Build runs: submissions whose reply has just parsed to a document of    *)
(* Contents (the reply text itself is not kept), for every requested slide *)
(* count; the same document may come back in a further submission.         *)
(***************************************************************************)
ParsedLog == <<"Form", "Extractor", "Extracted", "Enhancer", "Parsed">>

InitBuild ==
    /\ required_key \in {"k1"}
    /\ user_key = required_key
    /\ submitted = TRUE
    /\ ppt_file = Upload(<<>>)
    /\ slide_count \in SlideCounts
    /\ extracted = <<>>
    /\ json_str = <<>>
    /\ data \in Contents
    /\ pptx_path = 0
    /\ disk = <<>>
    /\ log = ParsedLog
    /\ pc = "tmpfile"
    /\ nRequests = 1
    /\ nParsed = 1

\* lines 13-162 once more, with the same inputs and the same reply
Resubmit ==
    /\ pc = "idle"
    /\ nRequests < MaxBuilds
    /\ nRequests' = nRequests + 1
    /\ nParsed' = nParsed + 1
    /\ pptx_path' = 0
    /\ log' = ParsedLog
    /\ pc' = "tmpfile"
    /\ UNCHANGED <<required_key, user_key, submitted, ppt_file, slide_count,
                   extracted, json_str, data, disk>>

NextBuild ==
    \/ TmpFile
    \/ Build
    \/ Download
    \/ Except
    \/ Resubmit

SpecBuild == InitBuild /\ [][NextBuild]_vars

(***************************************************************************)
(* Properties.                                                             *)
(***************************************************************************)

In(event) == \E i \in 1..Len(log) : log[i] = event

Last(q) == q[Len(q)]

\* the run is over
RunOver == pc = "idle" /\ nRequests > 0

\* event a is in the log and every b in the log comes after some a
Before(a, b) ==
    \A j \in 1..Len(log) : log[j] = b => \E i \in 1..(j - 1) : log[i] = a

SavedNames == {n \in DOMAIN disk : disk[n].saved}

\* C1: a request whose key is missing or differs from the configured key is
\* rejected with the access-denied error and nothing else happens in its run
\* (no form, no Extractor, Enhancer or Builder); a request whose key equals
\* the configured key goes on to the form.
C1_AccessGuard ==
    /\ user_key # required_key =>
          /\ pc \in {"idle", "guard"}
          /\ \A i \in 1..Len(log) : log[i] = "AccessDenied"
          /\ RunOver => log = <<"AccessDenied">>
    /\ user_key = required_key =>
          /\ ~In("AccessDenied")
          /\ pc \notin {"idle", "guard", "form"} => In("Form")
          /\ RunOver => log[1] = "Form"

C1_Witness ==
    /\ RunOver
    /\ user_key = None
    /\ submitted
    /\ ppt_file.kind = "pptx"
    /\ log = <<"AccessDenied">>

\* C2: once the Enhancer has been called, no exception leaves the script: a
\* service failure, a reply that does not parse, a reply that is no object
\* and a failed save all end the run with exactly one error report, and no
\* stage is run a second time.
C2_OneBoundary ==
    /\ (pc = "crash" \/ In("Uncaught")) => ~In("Enhancer")
    /\ Count("Enhancer") <= 1 /\ Count("Builder") <= 1 /\ Count("Error") <= 1
    /\ pc = "except" => In("Enhancer") /\ ~In("Error")
    /\ (RunOver /\ In("Enhancer")) =>
          \/ Last(log) = "Download" /\ ~In("Error")
          \/ Last(log) = "Error" /\ ~In("Download")

C2_Witness ==
    /\ RunOver
    /\ data = JList
    /\ Last(log) = "Error"
    /\ In("Builder")

\* C3: the Builder runs only after the Enhancer returned and its reply
\* parsed, the download is offered only after the Builder saved the file,
\* and a run whose Enhancer call failed or whose reply did not parse ends
\* with the error report right after the Enhancer call: no temporary file,
\* no Builder, no download.
C3_StageOrder ==
    /\ Before("Extracted", "Enhancer")
    /\ Before("Enhancer", "Parsed")
    /\ Before("Parsed", "Builder")
    /\ Before("Saved", "Download")
    /\ In("Download") => pptx_path \in SavedNames
    /\ ~In("Parsed") => ~In("TmpFile") /\ ~In("Builder") /\ ~In("Download")
    /\ (RunOver /\ In("Enhancer") /\ ~In("Parsed")) =>
          /\ Last(log) = "Error"
          /\ log[Len(log) - 1] = "Enhancer"

C3_Witness ==
    /\ RunOver
    /\ json_str # <<>>
    /\ ~In("Parsed")
    /\ Last(log) = "Error"

\* C4: a submission without an uploaded file shows the missing-upload error
\* and runs none of Extractor, Enhancer and Builder and creates no temporary
\* file; afterwards a new submission that carries a file can be made.
C4_MissingUpload ==
    /\ ppt_file = NoUpload =>
          /\ ~In("Extractor") /\ ~In("Enhancer")
          /\ ~In("TmpFile") /\ ~In("Builder") /\ ~In("Download")
    /\ (RunOver /\ ppt_file = NoUpload /\ submitted /\ user_key = required_key) =>
          log = <<"Form", "MissingUpload">>
    /\ In("MissingUpload") => ppt_file = NoUpload /\ submitted
    /\ (RunOver /\ In("MissingUpload") /\ nRequests < MaxRequests) =>
          ENABLED (Request /\ submitted' /\ ppt_file'.kind = "pptx"
                           /\ user_key' = required_key)
    /\ (ppt_file.kind = "pptx" /\ submitted /\ user_key = required_key
            /\ pc \notin {"guard", "form", "handler"}) => In("Extracted")

C4_Witness ==
    /\ RunOver
    /\ nRequests > 1
    /\ nRequests < MaxRequests
    /\ log = <<"Form", "MissingUpload">>

\* C8: no run sends more than one request to the language-model service; a
\* run whose extraction succeeded has sent exactly one when it is over,
\* whatever failed afterwards; a run without a file, with a rejected key or
\* without a finished extraction sends none.
C8_OneRequest ==
    /\ Count("Enhancer") <= 1
    /\ (RunOver /\ In("Extracted")) => Count("Enhancer") = 1
    /\ ~In("Extracted") => Count("Enhancer") = 0
    /\ (ppt_file = NoUpload \/ user_key # required_key) => Count("Enhancer") = 0

C8_Witness ==
    /\ RunOver
    /\ Count("Enhancer") = 1
    /\ In("SaveFailed")
    /\ Last(log) = "Error"

Extracted == pc = "enhance"

\* C5: a presentation of N slides gives exactly N records, the i-th from the
\* i-th slide, whether or not the slide has a title or any text.
C5_OneRecordPerSlide ==
    Extracted =>
        /\ Len(extracted) = Len(ppt_file.prs)
        /\ \A i \in 1..Len(ppt_file.prs) : extracted[i] = slide_data(ppt_file.prs[i])

C5_Witness ==
    /\ Extracted
    /\ ppt_file.prs = <<PictureSlide, TitledSlide, UntitledSlide>>
    /\ Len(extracted) = 3

\* t is s without its leading and trailing whitespace
IsTrimOf(t, s) ==
    \E i \in 1..(Len(s) + 1), j \in 0..Len(s) :
        /\ t = SubSeq(s, i, j)
        /\ \A k \in 1..(i - 1) : IsSpace(s[k])
        /\ \A k \in (j + 1)..Len(s) : IsSpace(s[k])
        /\ t # <<>> => ~IsSpace(t[1]) /\ ~IsSpace(t[Len(t)])

Blank(s) == \A k \in 1..Len(s) : IsSpace(s[k])

\* the paragraphs that make bullets: <<shape, paragraph>> positions
BulletParas(sl) ==
    {jk \in (1..Len(sl.shapes)) \X (1..MaxParas) :
        /\ jk[1] # sl.title
        /\ sl.shapes[jk[1]].has_text_frame
        /\ jk[2] <= Len(sl.shapes[jk[1]].paragraphs)
        /\ ~Blank(sl.shapes[jk[1]].paragraphs[jk[2]])}

\* the place of jk among them, in shape order then paragraph order
Rank(sl, jk) ==
    1 + Cardinality({q \in BulletParas(sl) :
                        q[1] < jk[1] \/ (q[1] = jk[1] /\ q[2] < jk[2])})

\* C7: the heading is the trimmed text of the title shape, or empty without
\* a title shape; the bullets are the trimmed non-blank paragraphs of the
\* other shapes with a text frame, in shape order then paragraph order; a
\* slide with only non-text shapes gives an empty heading and no bullets.
C7_SlideRule ==
    Extracted =>
        \A i \in 1..Len(ppt_file.prs) :
            LET sl == ppt_file.prs[i]
                rec == extracted[i]
            IN  /\ sl.title = 0 => rec.heading = <<>>
                /\ sl.title # 0 =>
                      IsTrimOf(rec.heading, shape_text(sl.shapes[sl.title].paragraphs))
                /\ Len(rec.bullet_points) = Cardinality(BulletParas(sl))
                /\ \A jk \in BulletParas(sl) :
                      IsTrimOf(rec.bullet_points[Rank(sl, jk)],
                               sl.shapes[jk[1]].paragraphs[jk[2]])
                /\ (\A j \in 1..Len(sl.shapes) : ~sl.shapes[j].has_text_frame) =>
                      rec = [heading |-> <<>>, bullet_points |-> <<>>]

C7_Witness ==
    /\ Extracted
    /\ Len(ppt_file.prs) = 1
    /\ ppt_file.prs[1].title = 2
    /\ ppt_file.prs[1].shapes[1].paragraphs = <<<<" ">>, <<" ", "a", " ">>>>
    /\ ppt_file.prs[1].shapes[2].paragraphs = <<<<"b">>, <<" ">>>>
    /\ extracted[1] = [heading |-> <<"b">>, bullet_points |-> <<<<"a">>>>]

(***************************************************************************)
(* Properties of the Builder, over the build runs.                         *)
(***************************************************************************)

ReplyRecords == Get(data.d, "slides", <<>>)

\* C6: every saved presentation has one title slide and then one slide per
\* record of the reply, in order, each titled with its record's heading; a
\* reply of 6 records gives 7 slides whatever slide count was requested;
\* two builds of the same reply agree in slide count and headings.
C6_SlidePerRecord ==
    /\ \A n \in SavedNames :
          LET prs == disk[n].prs
          IN  /\ Len(prs) = 1 + Len(ReplyRecords)
              /\ Len(ReplyRecords) = 6 => Len(prs) = 7
              /\ prs[1].layout = 0
              /\ \A i \in 1..Len(ReplyRecords) :
                    /\ prs[i + 1].layout = 6
                    /\ "heading" \in DOMAIN ReplyRecords[i] =>
                          prs[i + 1].title_text = ReplyRecords[i].heading
    /\ \A n \in SavedNames, m \in SavedNames :
          /\ Len(disk[n].prs) = Len(disk[m].prs)
          /\ \A i \in 1..Len(disk[n].prs) :
                disk[n].prs[i].title_text = disk[m].prs[i].title_text

C6_Witness ==
    /\ Cardinality(SavedNames) = 2
    /\ slide_count = SliderMin
    /\ Len(ReplyRecords) = 6
    /\ ReplyRecords[1] # ReplyRecords[2]
    /\ \A n \in SavedNames : Len(disk[n].prs) = 7

\* C9: fields missing from the reply are rendered with defaults and raise
\* nothing: no title gives "Untitled Presentation", no slides gives the
\* title slide alone, no heading gives an empty heading, no bullet points
\* gives no bullet paragraph, and the chart placeholder, labelled with the
\* chart type, is there exactly when chart_type is present and not empty.
C9_Defaults ==
    /\ (data.type = "dict" /\ In("Builder")) => In("Saved") \/ In("SaveFailed")
    /\ \A n \in SavedNames :
          LET prs == disk[n].prs
          IN  /\ prs[1].title_text =
                    IF "title" \in DOMAIN data.d THEN data.d.title
                    ELSE "Untitled Presentation"
              /\ "slides" \notin DOMAIN data.d => Len(prs) = 1
              /\ Len(prs) = 1 + Len(ReplyRecords)
              /\ \A i \in 1..Len(ReplyRecords) :
                    LET s == ReplyRecords[i]
                        slide == prs[i + 1]
                    IN  /\ "heading" \notin DOMAIN s => slide.title_text = ""
                        /\ "bullet_points" \notin DOMAIN s => Tail(slide.body) = <<>>
                        /\ "bullet_points" \in DOMAIN s =>
                              Tail(slide.body) = s.bullet_points
                        /\ ("chart_type" \notin DOMAIN s \/ Get(s, "chart_type", "") = "")
                              => slide.chart_box = <<>>
                        /\ ("chart_type" \in DOMAIN s /\ Get(s, "chart_type", "") # "")
                              => slide.chart_box =
                                    <<"[" \o s.chart_type \o " chart placeholder]">>

C9_Witness ==
    /\ pc = "download"
    /\ DOMAIN data.d = {"slides"}
    /\ Len(ReplyRecords) = 1
    /\ DOMAIN ReplyRecords[1] = {"chart_type"}
    /\ ReplyRecords[1].chart_type = ""
    /\ disk[pptx_path].prs[1].title_text = "Untitled Presentation"
    /\ disk[pptx_path].prs[2].chart_box = <<>>

====
